---------------------------- MODULE Spec2Model ----------------------------
(***************************************************************************)
(* GW2-api-img (src/src/main.rs): fetch the specialization, skill and      *)
(* trait catalogs of the Guild Wars 2 API, fetch the full records in       *)
(* chunks, project them, join traits with specializations, and render a    *)
(* grouped markdown sheet.                                                 *)
(*                                                                         *)
(* Representation.                                                         *)
(*  - A Rust String is the sequence of its bytes (<<65>> is "A"), so that  *)
(*    String's Ord is the byte-wise lexicographic order and format! is     *)
(*    concatenation.                                                       *)
(*  - A serde_json Value is a tagged record: [t |-> "null"],               *)
(*    [t |-> "str", s |-> bytes], [t |-> "num", n |-> u64],                *)
(*    [t |-> "arr", a |-> sequence], [t |-> "obj", o |-> record].          *)
(*  - A u64 is [hi, b31, lo]: its value is hi * 2^32 + b31 * 2^31 + lo     *)
(*    with hi in 0..2^32-1, b31 in 0..1, lo in 0..2^31-1.  Two u64 are     *)
(*    equal iff the records are equal.                                     *)
(*  - anyhow::Result is [ok |-> TRUE, val |-> v] or                        *)
(*    [ok |-> FALSE, panic |-> FALSE, err |-> message]; a panic (unwrap,   *)
(*    expect) is [ok |-> FALSE, panic |-> TRUE, err |-> "panic"].          *)
(***************************************************************************)
EXTENDS Integers, Sequences, FiniteSets

VARIABLES
    pc,                  \* position of the running call / of main
    json,                \* the `json` argument of the function under call
    specialization_full, \* raw specialization records (main.rs:15)
    spec_map,            \* the specialization index (main.rs:274)
    result,              \* the value the function under call returned
    ids,                 \* get_data: the identifier list
    category,            \* get_data: the category name
    stream,              \* get_data: urls not yet requested (main.rs:55)
    inflight,            \* get_data: the request awaiting its response
    v,                   \* get_data: responses received so far (main.rs:56)
    sent,                \* the remote source's log: [url, reply] in order of arrival
    server,              \* main: what the remote source holds this run
    local,               \* main: the locals of main (main.rs:9-24)
    stdout               \* main: the lines printed so far

vars == <<pc, json, specialization_full, spec_map, result, ids, category,
          stream, inflight, v, sent, server, local, stdout>>

fetchVars == <<ids, category, stream, inflight, v, sent>>
mainVars == <<server, local, stdout>>
pureVars == <<json, specialization_full, spec_map>>

----------------------------------------------------------------------------
(* Bounds of the model.                                                    *)

MaxSkills == 3
MaxTraits == 3
MaxSpecs == 2
MaxRawSkills == 2
MaxRawTraits == 3
MaxIds == 450

----------------------------------------------------------------------------
(* serde_json::Value, Option and anyhow::Result.                           *)

JNull == [t |-> "null"]
JStr(s) == [t |-> "str", s |-> s]
JNum(n) == [t |-> "num", n |-> n]
JArr(a) == [t |-> "arr", a |-> a]
JObj(o) == [t |-> "obj", o |-> o]

is_array(x) == x.t = "arr"
is_object(x) == x.t = "obj"
is_str(x) == x.t = "str"
is_u64(x) == x.t = "num"

\* Value::get(key): None on a non-object and on an absent key.
has(x, k) == is_object(x) /\ k \in DOMAIN x.o
get(x, k) == x.o[k]

Ok(x) == [ok |-> TRUE, val |-> x]
Err(m) == [ok |-> FALSE, panic |-> FALSE, err |-> m]
Panic == [ok |-> FALSE, panic |-> TRUE, err |-> "panic"]

None == [ok |-> FALSE, panic |-> FALSE, err |-> "unset"]

\* `x as i32` for x: u64 keeps the low 32 bits, bit 31 being the sign.
AsI32(n) == IF n.b31 = 1 THEN n.lo - 2147483647 - 1 ELSE n.lo

U64(h, b, l) == [hi |-> h, b31 |-> b, lo |-> l]

----------------------------------------------------------------------------
(* Strings.                                                                *)

\* a < b in String's Ord: byte-wise lexicographic, a proper prefix first.
StrLt(a, b) ==
    \E i \in 1..Len(b) :
        /\ \A j \in 1..(i - 1) : j <= Len(a) /\ a[j] = b[j]
        /\ (i > Len(a) \/ a[i] < b[i])

\* (String, String, String)'s Ord: lexicographic over the components.
KeyLt(k1, k2) ==
    \/ StrLt(k1[1], k2[1])
    \/ k1[1] = k2[1] /\ StrLt(k1[2], k2[2])
    \/ k1[1] = k2[1] /\ k1[2] = k2[2] /\ StrLt(k1[3], k2[3])

\* format!("## {}", s), format!("### {}", s), format!("[{}]: {}", n, i)
H2(s) == <<35, 35, 32>> \o s
H3(s) == <<35, 35, 35, 32>> \o s
EntryLine(n, i) == <<91>> \o n \o <<93, 58, 32>> \o i

\* "## Buffs"
BuffsHeader == <<35, 35, 32, 66, 117, 102, 102, 115>>
\* "Buff"
BuffTag == <<66, 117, 102, 102>>


----------------------------------------------------------------------------
(* Vec::sort_by_key (main.rs:235, main.rs:305): a stable sort.  The items  *)
(* are [key |-> (String, String, String), val |-> element].                *)

\* Where x goes among the already sorted items: after every item whose key
\* is not greater than x's, so that equal keys keep their input order.
InsertByKey(sorted, x) ==
    LET idx == Cardinality({j \in 1..Len(sorted) : ~KeyLt(x.key, sorted[j].key)})
    IN  SubSeq(sorted, 1, idx) \o <<x>> \o SubSeq(sorted, idx + 1, Len(sorted))

RECURSIVE sort_by_key(_)
sort_by_key(items) ==
    IF items = <<>> THEN <<>>
    ELSE InsertByKey(sort_by_key(SubSeq(items, 1, Len(items) - 1)),
                     items[Len(items)])

----------------------------------------------------------------------------
(* The walk of skills_to_markdown (main.rs:243-268) and of                 *)
(* traits_to_markdown (main.rs:313-343): the same loop over the sorted     *)
(* items, an item being [outer, inner, name, icon].  The loop state is     *)
(* [last_prof, last_type, result].                                         *)

\* A slip: the trackers start at a real key ("A") instead of "".
WalkInitAtA == [last_prof |-> <<65>>, last_type |-> <<>>, result |-> <<>>]

WalkInit == [last_prof |-> <<>>, last_type |-> <<>>, result |-> <<>>]

\* A slip: a new outer key does not force the inner header.
WalkStepKeepsInner(st, x) ==
    LET hdr == IF x.outer # st.last_prof
                 THEN [last_prof |-> x.outer, last_type |-> x.inner,
                       result |-> st.result \o <<H2(x.outer)>>
                                  \o (IF x.inner # st.last_type
                                        THEN <<H3(x.inner)>> ELSE <<>>)]
               ELSE IF x.inner # st.last_type
                 THEN [last_prof |-> st.last_prof, last_type |-> x.inner,
                       result |-> st.result \o <<H3(x.inner)>>]
               ELSE st
    IN  [hdr EXCEPT !.result = hdr.result \o <<EntryLine(x.name, x.icon)>>]

WalkStep(st, x) ==
    LET hdr == IF x.outer # st.last_prof
                 THEN [last_prof |-> x.outer, last_type |-> x.inner,
                       result |-> st.result \o <<H2(x.outer), H3(x.inner)>>]
               ELSE IF x.inner # st.last_type
                 THEN [last_prof |-> st.last_prof, last_type |-> x.inner,
                       result |-> st.result \o <<H3(x.inner)>>]
               ELSE st
    IN  [hdr EXCEPT !.result = hdr.result \o <<EntryLine(x.name, x.icon)>>]

RECURSIVE Walk(_)
Walk(items) ==
    IF items = <<>> THEN WalkInit
    ELSE WalkStep(Walk(SubSeq(items, 1, Len(items) - 1)), items[Len(items)])

\* The (outer, inner, name) sort key and the sorted items of a list of
\* [outer, inner, name, icon] records.
KeyOf(x) == <<x.outer, x.inner, x.name>>
Sorted(xs) ==
    LET s == sort_by_key([i \in 1..Len(xs) |-> [key |-> KeyOf(xs[i]), val |-> xs[i]]])
    IN  [i \in 1..Len(s) |-> s[i].val]

----------------------------------------------------------------------------
(* skills_to_markdown (main.rs:219-270).                                   *)

\* main.rs:228-231: "professions" collapses to its first element.
CollapseOk(x) ==
    /\ is_object(x)
    /\ has(x, "professions") => is_array(get(x, "professions"))
                                 /\ Len(get(x, "professions").a) > 0
Collapse(x) ==
    [k \in DOMAIN x.o |-> IF k = "professions" THEN x.o[k].a[1] ELSE x.o[k]]

\* The unwraps of the sort key (main.rs:237-239), of the walk
\* (main.rs:246-252) and of the entry line (main.rs:265-266).
StrField(m, k) == k \in DOMAIN m /\ is_str(m[k])
SkillUnwrapsOk(m) ==
    /\ StrField(m, "professions") /\ StrField(m, "type")
    /\ StrField(m, "name") /\ StrField(m, "icon")
SkillItem(m) ==
    [outer |-> m.professions.s, inner |-> m.type.s,
     name |-> m.name.s, icon |-> m.icon.s]

skills_to_markdown(j) ==
    IF ~is_array(j) THEN Err("is not an array")
    ELSE IF \E i \in 1..Len(j.a) : ~CollapseOk(j.a[i]) THEN Panic
    ELSE LET skills == [i \in 1..Len(j.a) |-> Collapse(j.a[i])]
         IN  IF \E i \in 1..Len(skills) : ~SkillUnwrapsOk(skills[i]) THEN Panic
             ELSE Ok(Walk(Sorted([i \in 1..Len(skills) |-> SkillItem(skills[i])])).result)

----------------------------------------------------------------------------
(* shrink_specializations (main.rs:184-208): the index i32 -> (profession, *)
(* name), built in input order, a later record overwriting an equal key.   *)

SpecRecordError(spec) ==
    IF ~has(spec, "id") THEN "cannot find id"
    ELSE IF ~is_u64(get(spec, "id")) THEN "cannot cast to u64"
    ELSE IF ~has(spec, "name") THEN "cannot find spec"
    ELSE IF ~is_str(get(spec, "name")) THEN "cannot cast to str"
    ELSE IF ~has(spec, "profession") THEN "cannot find spec"
    ELSE IF ~is_str(get(spec, "profession")) THEN "cannot cast to str"
    ELSE "none"

\* HashMap::insert
MapInsert(m, k, x) == [q \in DOMAIN m \cup {k} |-> IF q = k THEN x ELSE m[q]]
EmptyMap == [q \in {} |-> <<>>]

RECURSIVE SpecIndex(_)
SpecIndex(a) ==
    IF a = <<>> THEN EmptyMap
    ELSE LET spec == a[Len(a)]
         IN  MapInsert(SpecIndex(SubSeq(a, 1, Len(a) - 1)),
                       AsI32(get(spec, "id").n),
                       <<get(spec, "profession").s, get(spec, "name").s>>)

shrink_specializations(j) ==
    IF ~is_array(j) THEN Err("is not an array")
    ELSE IF \E i \in 1..Len(j.a) : SpecRecordError(j.a[i]) # "none"
      THEN LET first == CHOOSE i \in 1..Len(j.a) :
                            /\ SpecRecordError(j.a[i]) # "none"
                            /\ \A q \in 1..(i - 1) : SpecRecordError(j.a[q]) = "none"
           IN  Err(SpecRecordError(j.a[first]))
    ELSE Ok(SpecIndex(j.a))

----------------------------------------------------------------------------
(* traits_to_markdown (main.rs:272-345).                                   *)

\* main.rs:277-283: what stops the enrichment at trait t, if anything.
EnrichError(t, m) ==
    IF ~has(t, "specialization") THEN "no specialization"
    ELSE IF ~is_u64(get(t, "specialization")) THEN "cannot cast to u64"
    ELSE IF AsI32(get(t, "specialization").n) \notin DOMAIN m THEN "cannot find spec"
    ELSE "none"

\* main.rs:284-289: the trait with "profession" and "spec_str" inserted.
EnrichOne(t, m) ==
    LET e == m[AsI32(get(t, "specialization").n)]
        o == t.o
    IN  JObj([k \in DOMAIN o \cup {"profession", "spec_str"} |->
                 IF k = "profession" THEN JStr(e[1])
                 ELSE IF k = "spec_str" THEN JStr(e[2])
                 ELSE o[k]])

\* main.rs:276-290: the whole loop; it ends at the first trait that fails.
Enrich(j, m) ==
    IF ~is_array(j) THEN Err("is not an array")
    ELSE IF \E i \in 1..Len(j.a) : EnrichError(j.a[i], m) # "none"
      THEN LET first == CHOOSE i \in 1..Len(j.a) :
                            /\ EnrichError(j.a[i], m) # "none"
                            /\ \A q \in 1..(i - 1) : EnrichError(j.a[q], m) = "none"
           IN  Err(EnrichError(j.a[first], m))
    ELSE Ok(JArr([i \in 1..Len(j.a) |-> EnrichOne(j.a[i], m)]))

TraitUnwrapsOk(o) == StrField(o, "name") /\ StrField(o, "icon")
TraitItem(o) ==
    [outer |-> o.profession.s, inner |-> o.spec_str.s,
     name |-> o.name.s, icon |-> o.icon.s]

traits_to_markdown(j, m) ==
    LET e == Enrich(j, m)
    IN  IF ~e.ok THEN e
        ELSE LET traits == [i \in 1..Len(e.val.a) |-> e.val.a[i].o]
             IN  IF \E i \in 1..Len(traits) : ~TraitUnwrapsOk(traits[i]) THEN Panic
                 ELSE Ok(Walk(Sorted([i \in 1..Len(traits) |-> TraitItem(traits[i])])).result)

----------------------------------------------------------------------------
(* shrink_skills (main.rs:131-161) and shrink_traits (main.rs:163-182).    *)

\* main.rs:140-145, main.rs:172-177: the object restricted to `keys`.
Project(x, keys) == JObj([k \in DOMAIN x.o \cap keys |-> x.o[k]])

\* The three filters of main.rs:148-158 on a projected skill.
SkillKept(x) ==
    /\ \A k \in DOMAIN x.o :
           k = "professions" => is_array(x.o[k]) /\ Len(x.o[k].a) = 1
    /\ has(x, "type")
    /\ has(x, "professions")

shrink_skills(j) ==
    IF ~is_array(j) THEN Err("is not an array")
    ELSE IF \E i \in 1..Len(j.a) : ~is_object(j.a[i]) THEN Panic
    ELSE Ok(JArr(SelectSeq(
             [i \in 1..Len(j.a) |->
                 Project(j.a[i], {"name", "icon", "type", "professions"})],
             SkillKept)))

shrink_traits(j) ==
    IF ~is_array(j) THEN Err("is not an array")
    ELSE IF \E i \in 1..Len(j.a) : ~is_object(j.a[i]) THEN Panic
    ELSE Ok(JArr([i \in 1..Len(j.a) |->
                     Project(j.a[i], {"name", "icon", "specialization"})]))

----------------------------------------------------------------------------
(* get_buffs (main.rs:85-129).                                             *)

RECURSIVE Flatten(_)
Flatten(ss) == IF ss = <<>> THEN <<>> ELSE Head(ss) \o Flatten(Tail(ss))

HasFacts(x) == has(x, "facts")
FactsOf(x) == get(x, "facts").a
IsBuff(f) == has(f, "type") /\ get(f, "type").s = BuffTag

\* The unwraps and the expect of main.rs:90-107.
BuffUnwrapsOk(j) ==
    /\ \A i \in 1..Len(j.a) : is_object(j.a[i])
    /\ \A i \in 1..Len(j.a) :
           HasFacts(j.a[i]) =>
               /\ is_array(get(j.a[i], "facts"))
               /\ \A q \in 1..Len(FactsOf(j.a[i])) :
                      LET f == FactsOf(j.a[i])[q]
                      IN  is_object(f) /\ (has(f, "type") => is_str(get(f, "type")))

\* main.rs:101-108: the "Buff" facts, trait by trait, fact by fact.
Shrinked(j) ==
    LET withFacts == SelectSeq(j.a, HasFacts)
    IN  SelectSeq(Flatten([i \in 1..Len(withFacts) |-> FactsOf(withFacts[i])]),
                  IsBuff)

\* A slip: a later fact with the same status replaces the stored icon.
BuffStepOverwrites(st, buff) ==
    IF ~st.ok THEN st
    ELSE IF ~has(buff, "status") THEN Err("cannot find status of a buff")
    ELSE IF ~is_str(get(buff, "status")) THEN Err("cannot convert buff status to string")
    ELSE IF ~has(buff, "icon") THEN Err("cannot find status of a buff")
    ELSE IF ~is_str(get(buff, "icon")) THEN Err("cannot convert buff status to string")
    ELSE Ok(MapInsert(st.val, get(buff, "status").s, get(buff, "icon").s))

\* main.rs:111-125: one turn of the loop; st is the map so far, or the
\* error that ended the loop.
BuffStep(st, buff) ==
    IF ~st.ok THEN st
    ELSE IF ~has(buff, "status") THEN Err("cannot find status of a buff")
    ELSE IF ~is_str(get(buff, "status")) THEN Err("cannot convert buff status to string")
    ELSE IF get(buff, "status").s \in DOMAIN st.val THEN st
    ELSE IF ~has(buff, "icon") THEN Err("cannot find status of a buff")
    ELSE IF ~is_str(get(buff, "icon")) THEN Err("cannot convert buff status to string")
    ELSE Ok(MapInsert(st.val, get(buff, "status").s, get(buff, "icon").s))

RECURSIVE BuffLoop(_)
BuffLoop(buffs) ==
    IF buffs = <<>> THEN Ok(EmptyMap)
    ELSE BuffStep(BuffLoop(SubSeq(buffs, 1, Len(buffs) - 1)), buffs[Len(buffs)])

get_buffs(j) ==
    IF ~is_array(j) THEN Err("input is not array")
    ELSE IF ~BuffUnwrapsOk(j) THEN Panic
    ELSE BuffLoop(Shrinked(j))

\* buffs_to_markdown (main.rs:210-217); order is the order in which the
\* HashMap yields its keys, which the caller cannot choose.
buffs_to_markdown(buffs, order) ==
    Ok(<<BuffsHeader>> \o [i \in 1..Len(order) |-> EntryLine(order[i], buffs[order[i]])])

\* The orders a HashMap with these keys may be iterated in.
IterationOrders(keys) ==
    {o \in [1..Cardinality(keys) -> keys] :
        \A i, k \in 1..Cardinality(keys) : i # k => o[i] # o[k]}

----------------------------------------------------------------------------
(* get_data (main.rs:41-74).                                               *)

\* The chunk size of main.rs:44.
ChunkSize == 200

Min(a, b) == IF a < b THEN a ELSE b

\* A slip: chunks_exact, which leaves out a last chunk shorter than n.
RECURSIVE chunks_exact(_, _)
chunks_exact(s, n) ==
    IF Len(s) < n THEN <<>>
    ELSE <<SubSeq(s, 1, n)>> \o chunks_exact(SubSeq(s, n + 1, Len(s)), n)

\* slice::chunks(n): consecutive chunks of n elements, the last one shorter
\* when n does not divide the length; no chunk for an empty slice.
RECURSIVE chunks(_, _)
chunks(s, n) ==
    IF s = <<>> THEN <<>>
    ELSE <<SubSeq(s, 1, Min(n, Len(s)))>>
         \o chunks(SubSeq(s, Min(n, Len(s)) + 1, Len(s)), n)

\* u64::to_string: the decimal digits, as bytes.  The identifiers of the
\* model's catalogs are below 2^31 (hi = 0, b31 = 0).
RECURSIVE Digits(_)
Digits(n) == IF n < 10 THEN <<48 + n>> ELSE Digits(n \div 10) \o <<48 + (n % 10)>>
to_string(x) == Digits(x.lo)

\* [String]::join(","), evaluated by halves.
RECURSIVE join(_)
join(strs) ==
    IF strs = <<>> THEN <<>>
    ELSE IF Len(strs) = 1 THEN strs[1]
    ELSE LET h == Len(strs) \div 2
         IN  join(SubSeq(strs, 1, h)) \o <<44>> \o join(SubSeq(strs, h + 1, Len(strs)))

\* main.rs:45-53.  A url is [category, ids]: the two holes of
\* "https://api.guildwars2.com/v2/{}?ids={}".
Urls(idList, cat) ==
    LET id_chunks == chunks(idList, ChunkSize)
    IN  [k \in 1..Len(id_chunks) |->
            [category |-> cat,
             ids |-> join([i \in 1..Len(id_chunks[k]) |-> to_string(id_chunks[k][i])])]]

\* main.rs:61-73: every response must be an array; the arrays in order.
Merge(responses) ==
    IF \E k \in 1..Len(responses) : ~is_array(responses[k]) THEN Panic
    ELSE Ok(JArr(Flatten([k \in 1..Len(responses) |-> responses[k].a])))

\* The remote source reading the ids of a query string back: the decimal
\* numbers between the commas.  The range lo..hi is split at a comma (one
\* near its middle when there is one), and a range without a comma is a
\* number.
RECURSIVE Decimal(_, _, _)
Decimal(bytes, lo, hi) ==
    IF hi < lo THEN 0
    ELSE 10 * Decimal(bytes, lo, hi - 1) + (bytes[hi] - 48)

RECURSIVE ParseRange(_, _, _)
ParseRange(bytes, lo, hi) ==
    LET mid == (lo + hi) \div 2
        near == {j \in lo..hi : j >= mid - 11 /\ j <= mid + 11 /\ bytes[j] = 44}
        all == IF near # {} THEN near ELSE {j \in lo..hi : bytes[j] = 44}
    IN  IF all = {} THEN <<U64(0, 0, Decimal(bytes, lo, hi))>>
        ELSE LET c == CHOOSE j \in all : TRUE
             IN  ParseRange(bytes, lo, c - 1) \o ParseRange(bytes, c + 1, hi)

ParseIds(bytes) == IF bytes = <<>> THEN <<>> ELSE ParseRange(bytes, 1, Len(bytes))

\* to_ids (main.rs:76-83)
to_ids(j) ==
    IF ~is_array(j) THEN Err("not an array")
    ELSE IF \E i \in 1..Len(j.a) : ~is_u64(j.a[i]) THEN Err("fail to convert to ids")
    ELSE Ok([i \in 1..Len(j.a) |-> j.a[i].n])

----------------------------------------------------------------------------
(* The renderers under call: skills_to_markdown on a list of projected     *)
(* skills, or shrink_specializations followed by traits_to_markdown on a   *)
(* list of projected traits (main.rs:19, main.rs:23-24).                   *)

SeqsUpTo(S, n) == UNION {[1..k -> S] : k \in 0..n}
\* The lists among them in which no element comes twice.
DistinctSeqsUpTo(S, n) ==
    {q \in SeqsUpTo(S, n) : \A i, k \in 1..Len(q) : i # k => q[i] # q[k]}

\* {name, icon, type, professions: [p]}
Skill(p, t, n, i) ==
    JObj([name |-> JStr(n), icon |-> JStr(i), type |-> t,
          professions |-> JArr(<<JStr(p)>>)])
\* {name, icon, specialization}
Trait(n, i, s) ==
    JObj([name |-> JStr(n), icon |-> JStr(i), specialization |-> JNum(s)])
\* {id, name, profession}
Specialization(id, p, n) ==
    JObj([id |-> JNum(id), name |-> JStr(n), profession |-> JStr(p)])

\* "A" "B" "AB" "" for professions, "H" "U" "" for types, "i" "j" for icons
ProjectedSkills ==
    { Skill(<<65>>, JStr(<<72>>), <<90>>, <<105>>),
      Skill(<<65>>, JStr(<<72>>), <<77>>, <<105>>),
      Skill(<<65>>, JStr(<<72>>), <<77>>, <<106>>),
      Skill(<<65>>, JStr(<<85>>), <<66>>, <<105>>),
      Skill(<<66>>, JStr(<<72>>), <<67>>, <<105>>),
      Skill(<<65, 66>>, JStr(<<72>>), <<77>>, <<105>>),
      Skill(<<>>, JStr(<<72>>), <<77>>, <<105>>),
      Skill(<<65>>, JStr(<<>>), <<77>>, <<105>>),
      Skill(<<>>, JStr(<<>>), <<77>>, <<105>>),
      Skill(<<65>>, JNull, <<77>>, <<105>>) }

\* 1, 2, and 2^32 + 1
Id1 == U64(0, 0, 1)
Id2 == U64(0, 0, 2)
Id1Hi == U64(1, 0, 1)

ProjectedTraits ==
    { Trait(<<90>>, <<105>>, Id1),
      Trait(<<77>>, <<105>>, Id1),
      Trait(<<77>>, <<106>>, Id1),
      Trait(<<66>>, <<105>>, Id2),
      Trait(<<67>>, <<105>>, Id1Hi),
      JObj([name |-> JStr(<<67>>), icon |-> JStr(<<105>>)]) }

SpecializationRecords ==
    { Specialization(Id1, <<65>>, <<72>>),
      Specialization(Id2, <<65>>, <<85>>),
      Specialization(Id1Hi, <<>>, <<72>>),
      Specialization(Id2, <<66>>, <<72>>) }

InitRender ==
    /\ \/ /\ pc = "skills_to_markdown"
          /\ json \in {JArr(a) : a \in SeqsUpTo(ProjectedSkills, MaxSkills)}
          /\ specialization_full = JArr(<<>>)
       \/ /\ pc = "shrink_specializations"
          /\ json \in {JArr(a) : a \in SeqsUpTo(ProjectedTraits, MaxTraits)}
          /\ specialization_full \in
                 {JArr(a) : a \in DistinctSeqsUpTo(SpecializationRecords, MaxSpecs)}
    /\ spec_map = EmptyMap
    /\ result = None
    /\ ids = <<>> /\ category = "" /\ stream = <<>> /\ inflight = None /\ v = <<>> /\ sent = <<>>
    /\ server = None /\ local = None /\ stdout = <<>>

SkillsToMarkdown ==
    /\ pc = "skills_to_markdown"
    /\ result' = skills_to_markdown(json)
    /\ pc' = "skills_done"
    /\ UNCHANGED <<pureVars, fetchVars, mainVars>>

ShrinkSpecializations ==
    /\ pc = "shrink_specializations"
    /\ LET r == shrink_specializations(specialization_full)
       IN  IF r.ok
             THEN spec_map' = r.val /\ pc' = "traits_to_markdown" /\ UNCHANGED result
             ELSE result' = r /\ pc' = "failed" /\ UNCHANGED spec_map
    /\ UNCHANGED <<json, specialization_full, fetchVars, mainVars>>

TraitsToMarkdown ==
    /\ pc = "traits_to_markdown"
    /\ result' = traits_to_markdown(json, spec_map)
    /\ pc' = "traits_done"
    /\ UNCHANGED <<pureVars, fetchVars, mainVars>>

NextRender == SkillsToMarkdown \/ ShrinkSpecializations \/ TraitsToMarkdown

SpecRender == InitRender /\ [][NextRender]_vars

----------------------------------------------------------------------------
(* The reference rendering the grouped renderer is compared with: the      *)
(* records stably sorted by (outer, inner, name), a header at the start of *)
(* every run.  It is stated without trackers and without an insertion.     *)

RECURSIVE LexLe(_, _)
LexLe(a, b) ==
    IF a = <<>> THEN TRUE
    ELSE IF b = <<>> THEN FALSE
    ELSE IF a[1] # b[1] THEN a[1] < b[1]
    ELSE LexLe(Tail(a), Tail(b))

RefKeyLe(x, y) ==
    IF x.outer # y.outer THEN LexLe(x.outer, y.outer)
    ELSE IF x.inner # y.inner THEN LexLe(x.inner, y.inner)
    ELSE LexLe(x.name, y.name)

\* The one permutation that orders the keys and keeps ties in input order.
RefSorted(xs) ==
    LET n == Len(xs)
        p == CHOOSE q \in [1..n -> 1..n] :
                 /\ \A i, k \in 1..n : i # k => q[i] # q[k]
                 /\ \A i, k \in 1..n : i < k =>
                        /\ RefKeyLe(xs[q[i]], xs[q[k]])
                        /\ KeyOf(xs[q[i]]) = KeyOf(xs[q[k]]) => q[i] < q[k]
    IN  [i \in 1..n |-> xs[p[i]]]

RECURSIVE RefLines(_, _)
RefLines(s, n) ==
    IF n = 0 THEN <<>>
    ELSE RefLines(s, n - 1)
         \o (IF n = 1 \/ s[n].outer # s[n - 1].outer
               THEN <<H2(s[n].outer), H3(s[n].inner)>>
             ELSE IF s[n].inner # s[n - 1].inner THEN <<H3(s[n].inner)>>
             ELSE <<>>)
         \o <<EntryLine(s[n].name, s[n].icon)>>

Count(lines, P(_)) == Cardinality({i \in 1..Len(lines) : P(lines[i])})
IsH3(line) == Len(line) >= 4 /\ SubSeq(line, 1, 4) = <<35, 35, 35, 32>>
IsEntry(line) == Len(line) >= 1 /\ line[1] = 91

\* The renderer under call has returned, and its input was a list of
\* projected skills with string fields, or a list of traits that
\* spec_map enriches.  Items are the [outer, inner, name, icon] records it
\* sorts.
RenderedSkills ==
    pc = "skills_done" /\ \A i \in 1..Len(json.a) : SkillUnwrapsOk(Collapse(json.a[i]))
RenderedTraits == pc = "traits_done" /\ Enrich(json, spec_map).ok
Items ==
    IF pc = "skills_done"
      THEN [i \in 1..Len(json.a) |-> SkillItem(Collapse(json.a[i]))]
      ELSE LET e == Enrich(json, spec_map).val.a
           IN  [i \in 1..Len(e) |-> TraitItem(e[i].o)]
KeysNonEmpty(xs) == \A i \in 1..Len(xs) : xs[i].outer # <<>> /\ xs[i].inner # <<>>

\* C1: with all outer and inner keys non-empty, skills_to_markdown and
\* traits_to_markdown return exactly the reference sequence: the records
\* stably sorted by (outer, inner, name), '## outer' once per distinct outer
\* key and directly followed by a '### inner' line, '### inner' once per
\* distinct (outer, inner) pair, one entry line per record; an empty input
\* gives an empty output.
C1_Reference ==
    (RenderedSkills \/ RenderedTraits) /\ KeysNonEmpty(Items) =>
        LET out == result.val
            outers == {Items[i].outer : i \in 1..Len(Items)}
            pairs == {<<Items[i].outer, Items[i].inner>> : i \in 1..Len(Items)}
        IN  /\ result.ok
            /\ out = RefLines(RefSorted(Items), Len(Items))
            /\ \A k \in outers :
                   /\ Cardinality({i \in 1..Len(out) : out[i] = H2(k)}) = 1
                   /\ \A i \in 1..Len(out) :
                          out[i] = H2(k) => i < Len(out) /\ IsH3(out[i + 1])
            /\ Count(out, IsH3) = Cardinality(pairs)
            /\ Count(out, IsEntry) = Len(Items)
            /\ Len(out) = Cardinality(outers) + Cardinality(pairs) + Len(Items)
            /\ Items = <<>> => out = <<>>

\* Three enriched traits of two professions, given out of order.
C1_Witness ==
    /\ RenderedTraits /\ result.ok
    /\ KeysNonEmpty(Items)
    /\ Len(Items) = 3
    /\ Items # RefSorted(Items)
    /\ Cardinality({Items[i].outer : i \in 1..Len(Items)}) = 2
    /\ Len(result.val) = 7

\* The original C9: for every non-empty input the first three lines are
\* the '## outer' header, the '### inner' header and the entry of the first
\* element of the sorted sequence.
C9_AlwaysHeader ==
    (RenderedSkills \/ RenderedTraits) /\ Items # <<>> =>
        LET first == RefSorted(Items)[1]
        IN  /\ result.ok
            /\ Len(result.val) >= 3
            /\ result.val[1] = H2(first.outer)
            /\ result.val[2] = H3(first.inner)
            /\ result.val[3] = EntryLine(first.name, first.icon)

\* C9, amended: the trackers start as the empty string, so that the first
\* element of the sorted sequence triggers a header exactly when its key is
\* not empty.  For every non-empty input whose first sorted element has a
\* non-empty outer key, the first line is the '## outer' header, the second
\* the '### inner' header and the third the first entry; with an empty outer
\* key the output starts with the '### inner' header (non-empty inner key)
\* or with the entry itself (empty inner key).
C9_HeaderWhenOuterNonEmpty ==
    (RenderedSkills \/ RenderedTraits) /\ Items # <<>> =>
        LET first == RefSorted(Items)[1]
            entry == EntryLine(first.name, first.icon)
        IN  IF first.outer # <<>>
              THEN /\ result.ok
                   /\ Len(result.val) >= 3
                   /\ result.val[1] = H2(first.outer)
                   /\ result.val[2] = H3(first.inner)
                   /\ result.val[3] = entry
            ELSE IF first.inner # <<>>
              THEN result.val[1] = H3(first.inner) /\ result.val[2] = entry
            ELSE result.val[1] = entry

\* Two skills or more, the first sorted one with a profession and an empty
\* type: the unconditional inner header is '### '.
C9_Witness ==
    /\ RenderedSkills /\ result.ok
    /\ Len(Items) >= 2
    /\ RefSorted(Items)[1].outer # <<>>
    /\ RefSorted(Items)[1].inner = <<>>
    /\ result.val[2] = H3(<<>>)

\* Whether the u64 n is the i32 key k, as numbers.
SameNumber(n, k) == n.hi = 0 /\ n.b31 = 0 /\ n.lo = k

TraitsHaveIds ==
    \A i \in 1..Len(json.a) :
        has(json.a[i], "specialization") /\ is_u64(get(json.a[i], "specialization"))

\* C5: if a projected trait has a specialization id that is not a key of the
\* index shrink_specializations built, traits_to_markdown fails with
\* "cannot find spec" and returns no lines.
C5_MissingIdFails ==
    /\ pc = "traits_done"
    /\ TraitsHaveIds
    /\ \E i \in 1..Len(json.a) :
           \A k \in DOMAIN spec_map :
               ~SameNumber(get(json.a[i], "specialization").n, k)
    => result = Err("cannot find spec")

\* C10: identifiers are the same key only when equal: the index holds one
\* entry per distinct specialization id, and a trait is joined only with a
\* specialization record whose id equals its `specialization`.
C10_KeysAreIds ==
    /\ pc \in {"traits_to_markdown", "traits_done"} =>
           Cardinality(DOMAIN spec_map) =
               Cardinality({get(specialization_full.a[i], "id").n :
                                i \in 1..Len(specialization_full.a)})
    /\ pc = "traits_done" /\ result.ok =>
           \A i \in 1..Len(json.a) :
               \E q \in 1..Len(specialization_full.a) :
                   get(specialization_full.a[q], "id").n
                       = get(json.a[i], "specialization").n

----------------------------------------------------------------------------
(* The projector and the buff extractor under call: shrink_skills on a     *)
(* list of raw skill records, get_buffs on a list of raw trait records     *)
(* (main.rs:18, main.rs:20).                                               *)

\* A raw skill: name, icon, a key the projection drops, and `type` and
\* `professions` absent or of any shape.
RawSkill(withType, withProfs) ==
    JObj([k \in {"name", "icon", "slot"} \cup withType \cup withProfs |->
             IF k = "name" THEN JStr(<<77>>)
             ELSE IF k = "icon" THEN JStr(<<105>>)
             ELSE IF k = "slot" THEN JStr(<<85>>)
             ELSE JNull])
WithField(x, k, val) == JObj([q \in DOMAIN x.o \cup {k} |-> IF q = k THEN val ELSE x.o[q]])

RawSkills ==
    LET types == {JNull, JStr(<<72>>)}
        profs == {JNull, JStr(<<65>>), JArr(<<>>), JArr(<<JStr(<<65>>)>>),
                  JArr(<<JStr(<<65>>), JStr(<<66>>)>>)}
        bare == RawSkill({}, {})
        typed == {WithField(bare, "type", t) : t \in types}
    IN  {bare} \cup typed
        \cup {WithField(x, "professions", p) : x \in {bare} \cup typed, p \in profs}

\* A fact of a trait: {type, status, icon}, each present or not.
Fact(type, status, icon) ==
    JObj([k \in {q \in {"type", "status", "icon"} :
                   \/ q = "type" /\ type # None
                   \/ q = "status" /\ status # None
                   \/ q = "icon" /\ icon # None} |->
             IF k = "type" THEN type ELSE IF k = "status" THEN status ELSE icon])
Buff(status, icon) == Fact(JStr(BuffTag), status, icon)
RawTrait(facts) ==
    JObj([name |-> JStr(<<77>>), icon |-> JStr(<<105>>),
          specialization |-> JNum(Id1), facts |-> JArr(facts)])

\* statuses "S" "T", icons "i" "j", the other fact type "D"
RawTraits ==
    { JObj([name |-> JStr(<<77>>), icon |-> JStr(<<105>>),
            specialization |-> JNum(Id1)]),
      RawTrait(<<Buff(JStr(<<83>>), JStr(<<105>>))>>),
      RawTrait(<<Buff(JStr(<<83>>), JStr(<<106>>)),
                 Buff(JStr(<<84>>), JStr(<<105>>))>>),
      RawTrait(<<Fact(JStr(<<68>>), None, JStr(<<106>>)),
                 Buff(JStr(<<83>>), None)>>),
      RawTrait(<<Buff(None, JStr(<<105>>))>>),
      RawTrait(<<Fact(None, JStr(<<84>>), JStr(<<106>>)),
                 Buff(JStr(<<84>>), JNull),
                 Buff(JStr(<<84>>), JStr(<<106>>))>>),
      RawTrait(<<Buff(JNull, JStr(<<105>>))>>) }

InitProject ==
    /\ \/ /\ pc = "shrink_skills"
          /\ json \in {JArr(a) : a \in SeqsUpTo(RawSkills, MaxRawSkills)}
       \/ /\ pc = "get_buffs"
          /\ json \in {JArr(a) : a \in SeqsUpTo(RawTraits, MaxRawTraits)}
    /\ specialization_full = JArr(<<>>)
    /\ spec_map = EmptyMap
    /\ result = None
    /\ ids = <<>> /\ category = "" /\ stream = <<>> /\ inflight = None /\ v = <<>> /\ sent = <<>>
    /\ server = None /\ local = None /\ stdout = <<>>

ShrinkSkills ==
    /\ pc = "shrink_skills"
    /\ result' = shrink_skills(json)
    /\ pc' = "skills_shrunk"
    /\ UNCHANGED <<pureVars, fetchVars, mainVars>>

GetBuffs ==
    /\ pc = "get_buffs"
    /\ result' = get_buffs(json)
    /\ pc' = "buffs_done"
    /\ UNCHANGED <<pureVars, fetchVars, mainVars>>

NextProject == ShrinkSkills \/ GetBuffs

SpecProject == InitProject /\ [][NextProject]_vars

\* C2: a raw skill record is in the output of shrink_skills (as its
\* projection, in input order) iff its `professions` is present, is an array
\* and has exactly one element, and its `type` is present and non-null.
C2_Survives(x) ==
    /\ has(x, "professions")
    /\ is_array(get(x, "professions"))
    /\ Len(get(x, "professions").a) = 1
    /\ has(x, "type")
    /\ get(x, "type") # JNull
C2_SurvivesIff ==
    pc = "skills_shrunk" =>
        /\ result.ok
        /\ LET kept == SelectSeq(json.a, C2_Survives)
           IN  result.val.a =
                   [i \in 1..Len(kept) |->
                       Project(kept[i], {"name", "icon", "type", "professions"})]

\* The Buff facts of the input, by position <<trait, fact>>, and the order
\* of the positions: trait order, then fact order within a trait.
BuffPositions ==
    UNION {{<<i, q>> : q \in {q \in 1..Len(FactsOf(json.a[i])) :
                                 IsBuff(FactsOf(json.a[i])[q])}} :
           i \in {i \in 1..Len(json.a) : HasFacts(json.a[i])}}
FactAt(pos) == FactsOf(json.a[pos[1]])[pos[2]]
Before(p1, p2) == p1[1] < p2[1] \/ (p1[1] = p2[1] /\ p1[2] < p2[2])

\* C3: the map get_buffs returns holds exactly one entry per distinct status
\* of a Buff fact, and the icon stored is the icon of the first such fact in
\* input order, whatever the icons of the later ones.
C3_FirstIconWins ==
    pc = "buffs_done" /\ result.ok =>
        /\ DOMAIN result.val = {get(FactAt(pos), "status").s : pos \in BuffPositions}
        /\ \A pos \in BuffPositions :
               (\A p2 \in BuffPositions :
                    Before(p2, pos) => get(FactAt(p2), "status") # get(FactAt(pos), "status"))
               => result.val[get(FactAt(pos), "status").s] = get(FactAt(pos), "icon").s

\* Two Buff facts of one status with different icons, in different traits.
C3_Witness ==
    /\ pc = "buffs_done" /\ result.ok
    /\ \E p1, p2 \in BuffPositions :
           /\ p1[1] < p2[1]
           /\ get(FactAt(p1), "status") = get(FactAt(p2), "status")
           /\ has(FactAt(p2), "icon")
           /\ get(FactAt(p1), "icon") # get(FactAt(p2), "icon")

\* C8: get_buffs fails whenever some Buff fact lacks a string `status` or a
\* string `icon`, whatever facts came before it.
C8_BothRequired ==
    /\ pc = "buffs_done"
    /\ \E pos \in BuffPositions :
           \/ ~has(FactAt(pos), "status") \/ ~is_str(get(FactAt(pos), "status"))
           \/ ~has(FactAt(pos), "icon") \/ ~is_str(get(FactAt(pos), "icon"))
    => ~result.ok

----------------------------------------------------------------------------
(* get_data under call, request by request.  The remote source answers a   *)
(* request with the records of the ids asked for, in the order asked or in *)
(* the reverse order, or with a JSON value that is no array, or the        *)
(* transport fails.                                                        *)

Record(id) == JObj([id |-> JNum(id)])
Reverse(s) == [i \in 1..Len(s) |-> s[Len(s) + 1 - i]]
Replies(url) ==
    LET asked == ParseIds(url.ids)
        recs == [i \in 1..Len(asked) |-> Record(asked[i])]
    IN  {JArr(recs), JArr(Reverse(recs)), JObj([text |-> JStr(<<>>)])}

\* Lists of n distinct identifiers, ascending or descending.
IdLists ==
    LET lens == {0, 1, 2, ChunkSize - 1, ChunkSize, ChunkSize + 1,
                 2 * ChunkSize, 2 * ChunkSize + 1, MaxIds}
    IN  {[i \in 1..n |-> U64(0, 0, i)] : n \in lens}
        \cup {[i \in 1..n |-> U64(0, 0, n + 1 - i)] : n \in lens}

InitFetch ==
    /\ pc = "get_data"
    /\ ids \in IdLists
    /\ category \in {"skills", "traits"}
    /\ stream = <<>> /\ inflight = None /\ v = <<>> /\ sent = <<>>
    /\ json = JArr(<<>>)
    /\ specialization_full = JArr(<<>>)
    /\ spec_map = EmptyMap
    /\ result = None
    /\ server = None /\ local = None /\ stdout = <<>>

\* main.rs:44-56
BuildUrls ==
    /\ pc = "get_data"
    /\ stream' = Urls(ids, category)
    /\ v' = <<>>
    /\ pc' = "next"
    /\ UNCHANGED <<ids, category, inflight, sent, pureVars, result, mainVars>>

\* main.rs:57-58: stream.next() yields a url and the request is issued.
Request ==
    /\ pc = "next" /\ stream # <<>>
    /\ inflight' = Head(stream)
    /\ stream' = Tail(stream)
    /\ sent' = Append(sent, [url |-> Head(stream), reply |-> None])
    /\ pc' = "await"
    /\ UNCHANGED <<ids, category, v, pureVars, result, mainVars>>

\* main.rs:58-59: the response arrives and is pushed.
Response ==
    /\ pc = "await"
    /\ \E r \in Replies(inflight) :
           /\ v' = Append(v, r)
           /\ sent' = [sent EXCEPT ![Len(sent)].reply = r]
    /\ inflight' = None
    /\ pc' = "next"
    /\ UNCHANGED <<ids, category, stream, pureVars, result, mainVars>>

\* main.rs:58: reqwest::get or json() fails and `?` returns the error.
TransportError ==
    /\ pc = "await"
    /\ result' = Err("transport")
    /\ inflight' = None
    /\ v' = <<>>
    /\ pc' = "returned"
    /\ UNCHANGED <<ids, category, stream, sent, pureVars, mainVars>>

\* main.rs:57, main.rs:61-73: stream.next() yields None.
Return ==
    /\ pc = "next" /\ stream = <<>>
    /\ result' = Merge(v)
    /\ v' = <<>>
    /\ pc' = "returned"
    /\ UNCHANGED <<ids, category, stream, inflight, sent, pureVars, mainVars>>

NextFetch == BuildUrls \/ Request \/ Response \/ TransportError \/ Return

SpecFetch == InitFetch /\ [][NextFetch]_vars

\* The number of records in the replies before the k-th.
RECURSIVE C4_Offset(_)
C4_Offset(k) == IF k = 1 THEN 0 ELSE C4_Offset(k - 1) + Len(sent[k - 1].reply.a)

\* C4: for n identifiers get_data issues exactly ceil(n / 200) batch
\* requests, one at a time and in chunk order, request k + 1 only after the
\* response to request k; chunk k carries the contiguous identifiers
\* 200 * k .. min(200 * k + 199, n - 1) in input order; the returned list is
\* the concatenation of the responses in the order the chunks were issued.
C4_Chunking ==
    LET n == Len(ids)
    IN  /\ \A k \in 1..Len(sent) :
               LET asked == ParseIds(sent[k].url.ids)
               IN  /\ sent[k].url.category = category
                   /\ Len(asked) = Min(200, n - 200 * (k - 1))
                   /\ asked = SubSeq(ids, 200 * (k - 1) + 1, Min(200 * k, n))
                   /\ k < Len(sent) => sent[k].reply # None
        /\ 200 * Len(sent) < n + 200
        /\ pc = "returned" /\ (result.ok \/ result.panic) =>
               /\ 200 * Len(sent) >= n
               /\ \A k \in 1..Len(sent) : sent[k].reply # None
        /\ pc = "returned" /\ result.ok =>
               /\ \A k \in 1..Len(sent) : is_array(sent[k].reply)
               /\ Len(result.val.a) = C4_Offset(Len(sent) + 1)
               /\ \A k \in 1..Len(sent) :
                      SubSeq(result.val.a, C4_Offset(k) + 1, C4_Offset(k + 1))
                          = sent[k].reply.a

\* 450 identifiers: three requests of 200, 200 and 50 identifiers, the
\* second answered in reverse order.
C4_Witness ==
    /\ pc = "returned" /\ result.ok
    /\ Len(ids) = 450
    /\ Len(sent) = 3
    /\ Len(sent[1].reply.a) = 200 /\ Len(sent[2].reply.a) = 200
    /\ Len(sent[3].reply.a) = 50
    /\ sent[2].reply.a[1] = Record(ids[400])

----------------------------------------------------------------------------
(* main (main.rs:8-33), one action per statement.  `server` is what the    *)
(* remote source holds during the run: a catalog per category and the      *)
(* record of every identifier; any request may also fail in transport.     *)

Catalogs ==
    [specializations : {JArr(<<JNum(Id1)>>), JArr(<<JNum(Id1), JNum(Id2)>>)},
     skills : {JArr(<<>>), JArr(<<JNum(Id1), JNum(Id2)>>), JObj([text |-> JStr(<<>>)])},
     traits : {JArr(<<JNum(Id1)>>), JArr(<<JNum(Id1), JNum(Id2)>>),
               JArr(<<JNum(Id1), JStr(<<50>>)>>)}]

FullSkill(p, t, n) ==
    JObj([name |-> JStr(n), icon |-> JStr(<<105>>), slot |-> JStr(<<85>>),
          type |-> t, professions |-> JArr(p)])
FullTrait(n, s, facts) ==
    JObj([name |-> JStr(n), icon |-> JStr(<<106>>), tier |-> JNull,
          specialization |-> JNum(s), facts |-> JArr(facts)])

\* The records of the identifiers 1 and 2 of each category.
Databases ==
    [specializations :
         {<<x, Specialization(Id2, <<66>>, <<85>>)>> :
             x \in {Specialization(Id1, <<65>>, <<72>>),
                    JObj([id |-> JNum(Id1), profession |-> JStr(<<65>>)])}},
     skills :
         {<<x, FullSkill(<<JStr(<<66>>)>>, JStr(<<72>>), <<67>>)>> :
             x \in {FullSkill(<<JStr(<<65>>)>>, JStr(<<72>>), <<77>>),
                    FullSkill(<<JStr(<<65>>), JStr(<<66>>)>>, JStr(<<72>>), <<77>>),
                    FullSkill(<<JStr(<<65>>)>>, JNull, <<77>>)}},
     traits :
         {<<x, FullTrait(<<90>>, Id1, <<Buff(JStr(<<84>>), JStr(<<106>>)),
                                        Buff(JStr(<<83>>), JStr(<<106>>))>>)>> :
             x \in {FullTrait(<<77>>, Id1, <<Buff(JStr(<<83>>), JStr(<<105>>))>>),
                    JObj([name |-> JStr(<<77>>), icon |-> JStr(<<106>>),
                          specialization |-> JNum(Id2)]),
                    FullTrait(<<77>>, Id1, <<Buff(None, JStr(<<105>>))>>)}}]

\* The reply of the remote source to a batch request that arrives.
ServerReply(url) ==
    LET asked == ParseIds(url.ids)
    IN  JArr([i \in 1..Len(asked) |-> server.db[url.category][asked[i].lo]])

Locals ==
    {"specializations_json", "skill_ids_json", "trait_ids_json",
     "specialization_ids", "skill_ids", "trait_ids",
     "specialization_full", "skills_full", "traits_full",
     "buffs", "specializations", "skills", "traits",
     "buff_markdown", "skill_markdown", "trait_markdown"}

Init ==
    /\ pc = "get_meta_specializations"
    /\ server \in [catalog : Catalogs, db : Databases]
    /\ local = [x \in Locals |-> None]
    /\ stdout = <<>>
    /\ result = None
    /\ json = JArr(<<>>)
    /\ specialization_full = JArr(<<>>)
    /\ spec_map = EmptyMap
    /\ ids = <<>> /\ category = "" /\ stream = <<>>
    /\ inflight = None /\ v = <<>> /\ sent = <<>>

\* `let x = r?;` at position `at`: on Ok the local is bound (local[x] is
\* None until then, Ok(value) after) and main goes on to `next`; on Err (or
\* a panic) the process ends with the error.
Let(at, x, r, next) ==
    /\ pc = at
    /\ pc' = IF r.ok THEN next ELSE "failed"
    /\ local' = IF r.ok THEN [local EXCEPT ![x] = r] ELSE local
    /\ result' = IF r.ok THEN result ELSE r
    /\ UNCHANGED <<server, stdout, pureVars, fetchVars>>

\* main.rs:9-11, get_meta (main.rs:35-39)
GetMeta(at, cat, x, next) ==
    /\ pc = at
    /\ \E r \in {Ok(server.catalog[cat]), Err("transport")} : Let(at, x, r, next)

\* main.rs:12-14
ToIds(at, from, x, next) ==
    /\ pc = at
    /\ Let(at, x, to_ids(local[from].val), next)

\* main.rs:15-17: get_data, its requests answered one after the other; a
\* transport failure of any of them ends it.
GetData(at, from, cat, x, next) ==
    /\ pc = at
    /\ LET urls == Urls(local[from].val, cat)
           replies == [k \in 1..Len(urls) |-> ServerReply(urls[k])]
       IN  \E r \in {Merge(replies)} \cup (IF urls = <<>> THEN {} ELSE {Err("transport")}) :
               Let(at, x, r, next)

\* main.rs:18-21
MainGetBuffs ==
    /\ pc = "get_buffs"
    /\ Let("get_buffs", "buffs", get_buffs(local.traits_full.val), "shrink_specializations")
MainShrinkSpecializations ==
    /\ pc = "shrink_specializations"
    /\ Let("shrink_specializations", "specializations",
           shrink_specializations(local.specialization_full.val), "shrink_skills")
MainShrinkSkills ==
    /\ pc = "shrink_skills"
    /\ Let("shrink_skills", "skills", shrink_skills(local.skills_full.val), "shrink_traits")
MainShrinkTraits ==
    /\ pc = "shrink_traits"
    /\ Let("shrink_traits", "traits", shrink_traits(local.traits_full.val), "buffs_to_markdown")

\* main.rs:22-24
MainBuffsToMarkdown ==
    /\ pc = "buffs_to_markdown"
    /\ \E order \in IterationOrders(DOMAIN local.buffs.val) :
           Let("buffs_to_markdown", "buff_markdown",
               buffs_to_markdown(local.buffs.val, order), "skills_to_markdown")
MainSkillsToMarkdown ==
    /\ pc = "skills_to_markdown"
    /\ Let("skills_to_markdown", "skill_markdown",
           skills_to_markdown(local.skills.val), "traits_to_markdown")
MainTraitsToMarkdown ==
    /\ pc = "traits_to_markdown"
    /\ Let("traits_to_markdown", "trait_markdown",
           traits_to_markdown(local.traits.val, local.specializations.val), "print")

\* A slip: the chain in the order the three lists were rendered.
ChainSkillsFirst ==
    local.buff_markdown.val \o local.skill_markdown.val \o local.trait_markdown.val

\* main.rs:26-29: the chained iterator.
Chain == local.buff_markdown.val \o local.trait_markdown.val \o local.skill_markdown.val

\* A slip: the buff lines are printed as soon as they are rendered.
PrintlnEarly ==
    \/ /\ pc = "skills_to_markdown"
       /\ Len(stdout) < Len(local.buff_markdown.val)
       /\ stdout' = Append(stdout, local.buff_markdown.val[Len(stdout) + 1])
       /\ UNCHANGED <<pc, result, server, local, pureVars, fetchVars>>
    \/ /\ pc = "print"
       /\ IF Len(stdout) < Len(Chain)
            THEN stdout' = Append(stdout, Chain[Len(stdout) + 1])
                 /\ UNCHANGED <<pc, result>>
            ELSE pc' = "done" /\ result' = Ok(<<>>) /\ UNCHANGED stdout
       /\ UNCHANGED <<server, local, pureVars, fetchVars>>

\* main.rs:30-32: for_each println!, one line per step, then Ok(()).
Println ==
    /\ pc = "print"
    /\ IF Len(stdout) < Len(Chain)
         THEN stdout' = Append(stdout, Chain[Len(stdout) + 1])
              /\ UNCHANGED <<pc, result>>
         ELSE pc' = "done" /\ result' = Ok(<<>>) /\ UNCHANGED stdout
    /\ UNCHANGED <<server, local, pureVars, fetchVars>>

Next ==
    \/ GetMeta("get_meta_specializations", "specializations",
               "specializations_json", "get_meta_skills")
    \/ GetMeta("get_meta_skills", "skills", "skill_ids_json", "get_meta_traits")
    \/ GetMeta("get_meta_traits", "traits", "trait_ids_json", "to_ids_specializations")
    \/ ToIds("to_ids_specializations", "specializations_json",
             "specialization_ids", "to_ids_skills")
    \/ ToIds("to_ids_skills", "skill_ids_json", "skill_ids", "to_ids_traits")
    \/ ToIds("to_ids_traits", "trait_ids_json", "trait_ids", "get_data_specializations")
    \/ GetData("get_data_specializations", "specialization_ids", "specializations",
               "specialization_full", "get_data_skills")
    \/ GetData("get_data_skills", "skill_ids", "skills", "skills_full", "get_data_traits")
    \/ GetData("get_data_traits", "trait_ids", "traits", "traits_full", "get_buffs")
    \/ MainGetBuffs
    \/ MainShrinkSpecializations
    \/ MainShrinkSkills
    \/ MainShrinkTraits
    \/ MainBuffsToMarkdown
    \/ MainSkillsToMarkdown
    \/ MainTraitsToMarkdown
    \/ Println

Spec == Init /\ [][Next]_vars

\* C6: no line is written before every fetch, the buff extraction, the
\* projections, the index build, the enrichment and the three renders have
\* succeeded; a run in which a step fails ends with an error and with no
\* line written.
C6_NoPartialOutput ==
    /\ stdout # <<>> =>
           /\ pc \in {"print", "done"}
           /\ \A x \in Locals : local[x] # None
    /\ pc = "failed" => ~result.ok /\ stdout = <<>>
    /\ pc = "done" => result.ok

\* The join fails ("cannot find spec") after the buff and skill lines were
\* rendered: the run ends with the error and nothing was written.
C6_Witness ==
    /\ pc = "failed"
    /\ result = Err("cannot find spec")
    /\ local.buff_markdown # None /\ Len(local.buff_markdown.val) > 1
    /\ local.skill_markdown # None /\ Len(local.skill_markdown.val) > 1
    /\ stdout = <<>>

\* C7: the output is the buff lines, beginning with the '## Buffs' header
\* even when there is no buff, then all trait lines, then all skill lines;
\* the lines are written in that order.
C7_OutputOrder ==
    pc \in {"print", "done"} =>
        LET out == local.buff_markdown.val \o local.trait_markdown.val \o local.skill_markdown.val
        IN  /\ Len(stdout) <= Len(out)
            /\ stdout = SubSeq(out, 1, Len(stdout))
            /\ pc = "done" => stdout = out
            /\ local.buff_markdown.val[1] = BuffsHeader
            /\ Len(local.buff_markdown.val) = 1 + Cardinality(DOMAIN local.buffs.val)
            /\ \A i \in 2..Len(local.buff_markdown.val) : IsEntry(local.buff_markdown.val[i])
            /\ {local.buff_markdown.val[i] : i \in 2..Len(local.buff_markdown.val)}
                   = {EntryLine(k, local.buffs.val[k]) : k \in DOMAIN local.buffs.val}
            /\ local.trait_markdown.val = traits_to_markdown(local.traits.val, local.specializations.val).val
            /\ local.skill_markdown.val = skills_to_markdown(local.skills.val).val

\* A finished run with buff, trait and skill lines, traits and skills of
\* different professions.
C7_Witness ==
    /\ pc = "done"
    /\ Len(local.buff_markdown.val) = 3
    /\ Len(local.trait_markdown.val) >= 4
    /\ Len(local.skill_markdown.val) >= 6
    /\ local.trait_markdown.val # local.skill_markdown.val
    /\ Len(stdout) >= 13

=============================================================================
